---- MODULE Spec2Model ----
(***************************************************************************)
(* Support counting of gsp-py's Rust engine (src/rust/src/lib.rs).         *)
(*                                                                         *)
(* compute_supports_py counts, for every candidate pattern, the            *)
(* transactions that contain it as a contiguous run, and keeps the         *)
(* candidates whose count reaches min_support.  The candidates are         *)
(* evaluated by parallel tasks (rayon par_iter); each task scans the       *)
(* transactions sequentially, optionally skipping a transaction with the   *)
(* presence prefilter, and runs the matcher is_subseq_contiguous on the    *)
(* rest.  The matcher's offset loop is modelled one iteration per step.    *)
(***************************************************************************)
EXTENDS Integers, Sequences, FiniteSets

VARIABLES
    tx,            \* call argument: the transactions (Vec<Vec<u32>>), line 32
    cands,         \* call argument: the candidates (Vec<Vec<u32>>), line 33
    min_support,   \* call argument: the threshold (u32), line 30
    pool,          \* size of the rayon worker pool of the process
    pc,            \* "idle" (no call yet), "running" (inside a call), "done" (returned)
    prefilter,     \* local `prefilter` of the current call, lines 36-39
    tx_sets,       \* local `tx_sets` of the current call, lines 42-44
    task,          \* one record per candidate: the state of its map closure
    part,          \* per candidate, what map + filter hand to collect
    finished,      \* the candidates' positions in the order their tasks completed
    out,           \* the vector the call returned
    calls,         \* number of calls started so far
    prevOut,       \* result of the previous completed call
    prevPrefilter  \* value of `prefilter` in the previous call

vars == <<tx, cands, min_support, pool, pc, prefilter, tx_sets, task, part, finished, out,
          calls, prevOut, prevPrefilter>>

(***************************************************************************)
(* Bounds of the model.                                                    *)
(***************************************************************************)
MaxLen == 2        \* longest transaction / candidate of an aggregation call
MaxTx == 2         \* most transactions of a call
MaxCands == 2      \* most candidates of a call
MaxWorkers == 2    \* largest worker pool
MaxCalls == 2      \* calls made one after the other with the same arguments
MaxHay == 5        \* longest haystack given to the matcher alone
MaxNeedle == 3     \* longest needle given to the matcher alone

Items == {1, 2}

SeqsUpTo(S, n) == UNION {[1..m -> S] : m \in 0..n}

(***************************************************************************)
(* GSPPY_PREFILTER as the process may hold it at the time of a call.       *)
(***************************************************************************)
EnvValues == {"unset", "1", "true", "TRUE", "0", "yes"}

to_ascii_lowercase(v) == IF v = "TRUE" THEN "true" ELSE v

eq_ignore_ascii_case(a, b) == to_ascii_lowercase(a) = to_ascii_lowercase(b)

\* A comparison with "true" that minds the case.
EnvPrefilterCaseSensitive(v) == v = "1" \/ v = "true"

\* Lines 36-39: unset is false, else `v == "1" || v.eq_ignore_ascii_case("true")`.
EnvPrefilter(v) ==
    IF v = "unset" THEN FALSE
    ELSE v = "1" \/ eq_ignore_ascii_case(v, "true")

(***************************************************************************)
(* The matcher.                                                            *)
(***************************************************************************)
\* A matcher that trusts the two end points of the window.
MatchIterEndpointsOnly(hay, needle, i) ==
    LET n == Len(needle) IN
    IF hay[i + 1] # needle[1] THEN "continue"
    ELSE IF hay[i + n] # needle[n] THEN "continue"
    ELSE "true"

\* A matcher that gives up at the first offset that does not match.
MatchIterFirstOffsetOnly(hay, needle, i) ==
    IF SubSeq(hay, i + 1, i + Len(needle)) = needle THEN "true" ELSE "false"

\* One iteration of the while loop at offset i (0-based, i + n <= m):
\* "true" is `return true`, "continue" is `i += 1`.
MatchIter(hay, needle, i) ==
    LET n == Len(needle) IN
    IF hay[i + 1] # needle[1] THEN "continue"
    ELSE IF hay[i + n] # needle[n] THEN "continue"
    ELSE IF SubSeq(hay, i + 1, i + n) = needle THEN "true"
    ELSE "continue"

\* An offset loop that forgets to advance on a mismatch.
NextOffsetStuck(i, r) == i

\* The offset after an iteration that did not return.
NextOffset(i, r) == i + 1

RECURSIVE MatchFrom(_, _, _)
MatchFrom(hay, needle, i) ==
    IF i + Len(needle) <= Len(hay)
    THEN IF MatchIter(hay, needle, i) = "true" THEN TRUE
         ELSE MatchFrom(hay, needle, i + 1)
    ELSE FALSE

is_subseq_contiguous(hay, needle) ==
    IF Len(needle) = 0 THEN FALSE
    ELSE IF Len(needle) > Len(hay) THEN FALSE
    ELSE MatchFrom(hay, needle, 0)

(***************************************************************************)
(* The prefilter.                                                          *)
(***************************************************************************)
\* The items of a transaction, as HashSet<u32>.
TxSet(t) == {t[j] : j \in 1..Len(t)}

\* A prefilter that wants as many distinct items as the candidate is long.
PrefilterSkipByLength(set, cand) ==
    \/ ~(\A j \in 1..Len(cand) : cand[j] \in set)
    \/ Len(cand) > Cardinality(set)

\* Quick reject: some item of the candidate is not in the transaction.
PrefilterSkip(set, cand) == ~(\A j \in 1..Len(cand) : cand[j] \in set)

(***************************************************************************)
(* The aggregation.                                                        *)
(***************************************************************************)
\* A counter that counts every transaction given to the matcher.
CountAlways(freq, matched) == freq + 1

\* `if is_subseq_contiguous(t, cand) { freq += 1; }`.  freq is a u32 and is
\* at most the number of transactions, which the bounds keep far below 2^32.
Count(freq, matched) == IF matched THEN freq + 1 ELSE freq

\* A strict threshold.
RetainStrict(f, ms) == f > ms

\* .filter(|(_, f)| *f >= min_support)
Retain(f, ms) == f >= ms

RECURSIVE Flatten(_, _)
Flatten(parts, n) == IF n = 0 THEN <<>> ELSE Flatten(parts, n - 1) \o parts[n]

RECURSIVE FlattenBackwards(_, _)
FlattenBackwards(parts, n) ==
    IF n = 0 THEN <<>> ELSE parts[n] \o FlattenBackwards(parts, n - 1)

\* A collect that gathers the parts last to first.
CollectReversed(parts) == FlattenBackwards(parts, Len(parts))

\* .collect() into a Vec: the parts in the order of the candidates.
Collect(parts) == Flatten(parts, Len(parts))

\* A collect that takes the results as the tasks complete.
SlotByCompletion(k, completed) == Len(completed) + 1

\* Where collect puts the result of candidate k: rayon keeps the position of
\* the item in the parallel iterator, whichever tasks completed before it.
SlotOf(k, completed) == k

NoSets == [some |-> FALSE, sets |-> <<>>]

\* A task whose counter starts at one.
TaskCountingFromOne ==
    [pc |-> "pending", idx |-> 0, i |-> 0, freq |-> 1, last |-> "none"]

\* Line 50 (`let mut freq: u32 = 0`) and the start of the loops.
FreshTask == [pc |-> "pending", idx |-> 0, i |-> 0, freq |-> 0, last |-> "none"]

Active == {k \in DOMAIN task : task[k].pc \in {"for", "while"}}

args == <<tx, cands, min_support, pool>>
hist == <<calls, prevOut, prevPrefilter>>

InitWith(T, C, M, P) ==
    /\ tx \in T
    /\ cands \in C
    /\ min_support \in M
    /\ pool \in P
    /\ pc = "idle"
    /\ prefilter = FALSE
    /\ tx_sets = NoSets
    /\ task = <<>>
    /\ part = <<>>
    /\ finished = <<>>
    /\ out = <<>>
    /\ calls = 0
    /\ prevOut = <<>>
    /\ prevPrefilter = FALSE

Init ==
    InitWith(SeqsUpTo(SeqsUpTo(Items, MaxLen), MaxTx),
             SeqsUpTo(SeqsUpTo(Items, MaxLen), MaxCands),
             0..MaxTx, 1..MaxWorkers)

\* One transaction and one candidate: the matcher on its own.
InitMatch ==
    InitWith({<<h>> : h \in SeqsUpTo(Items, MaxHay)},
             {<<n>> : n \in SeqsUpTo(Items, MaxNeedle)},
             {0}, {1})

\* Lines 30-48: the call reads the environment, builds the item sets and
\* hands one task per candidate to the pool.
Call(v) ==
    /\ pc \in {"idle", "done"}
    /\ calls < MaxCalls
    /\ calls' = calls + 1
    /\ prevOut' = IF pc = "done" THEN out ELSE prevOut
    /\ prevPrefilter' = IF pc = "done" THEN prefilter ELSE prevPrefilter
    /\ prefilter' = EnvPrefilter(v)
    /\ tx_sets' = IF EnvPrefilter(v)
                  THEN [some |-> TRUE, sets |-> [j \in 1..Len(tx) |-> TxSet(tx[j])]]
                  ELSE NoSets
    /\ task' = [k \in 1..Len(cands) |-> FreshTask]
    /\ part' = [k \in 1..Len(cands) |-> <<>>]
    /\ finished' = <<>>
    /\ out' = <<>>
    /\ pc' = "running"
    /\ UNCHANGED args

\* A free worker picks up the task of candidate k (line 49).
Start(k) ==
    /\ pc = "running"
    /\ task[k].pc = "pending"
    /\ Cardinality(Active) < pool
    /\ task' = [task EXCEPT ![k].pc = "for"]
    /\ UNCHANGED <<args, hist, pc, prefilter, tx_sets, part, finished, out>>

\* The task leaves the matcher (or the prefilter) for transaction idx.
Returned(k, r, lbl) ==
    [task[k] EXCEPT !.pc = "for", !.idx = @ + 1, !.i = 0,
                    !.freq = Count(@, r), !.last = lbl]

\* Lines 51-57 and 8-14: the next transaction; the prefilter, then the
\* matcher's two early returns, else the offset loop starts at 0.
Scan(k) ==
    /\ pc = "running"
    /\ task[k].pc = "for"
    /\ task[k].idx < Len(tx)
    /\ LET t == tx[task[k].idx + 1]
           cand == cands[k]
       IN  task' = [task EXCEPT ![k] =
             IF tx_sets.some /\ PrefilterSkip(tx_sets.sets[task[k].idx + 1], cand)
             THEN [task[k] EXCEPT !.idx = @ + 1, !.last = "skip"]
             ELSE IF Len(cand) = 0 THEN Returned(k, FALSE, "false")
             ELSE IF Len(cand) > Len(t) THEN Returned(k, FALSE, "false")
             ELSE [task[k] EXCEPT !.pc = "while", !.i = 0]]
    /\ UNCHANGED <<args, hist, pc, prefilter, tx_sets, part, finished, out>>

\* Lines 15-21: one test of the loop condition and, if it holds, one
\* iteration of the body.
While(k) ==
    /\ pc = "running"
    /\ task[k].pc = "while"
    /\ LET t == tx[task[k].idx + 1]
           cand == cands[k]
           i == task[k].i
       IN  task' = [task EXCEPT ![k] =
             IF i + Len(cand) <= Len(t)
             THEN LET r == MatchIter(t, cand, i)
                  IN  IF r = "true" THEN Returned(k, TRUE, "true")
                      ELSE IF r = "false" THEN Returned(k, FALSE, "false")
                      ELSE [task[k] EXCEPT !.i = NextOffset(i, r)]
             ELSE Returned(k, FALSE, "false")]
    /\ UNCHANGED <<args, hist, pc, prefilter, tx_sets, part, finished, out>>

\* Lines 59-61: the closure returns (cand, freq) and the filter keeps or
\* drops it.
Emit(k) ==
    /\ pc = "running"
    /\ task[k].pc = "for"
    /\ task[k].idx = Len(tx)
    /\ part' = [part EXCEPT ![SlotOf(k, finished)] =
                  IF Retain(task[k].freq, min_support)
                  THEN << <<cands[k], task[k].freq>> >>
                  ELSE <<>>]
    /\ task' = [task EXCEPT ![k].pc = "finished"]
    /\ finished' = Append(finished, k)
    /\ UNCHANGED <<args, hist, pc, prefilter, tx_sets, out>>

\* Lines 62-66: collect joins the tasks and the call returns the vector.
Return ==
    /\ pc = "running"
    /\ \A k \in DOMAIN task : task[k].pc = "finished"
    /\ out' = Collect(part)
    /\ pc' = "done"
    /\ UNCHANGED <<args, hist, prefilter, tx_sets, task, part, finished>>

TaskStep(k) == k \in DOMAIN task /\ (Start(k) \/ Scan(k) \/ While(k) \/ Emit(k))

Next ==
    \/ \E v \in EnvValues : Call(v)
    \/ \E k \in DOMAIN task : Start(k)
    \/ \E k \in DOMAIN task : Scan(k)
    \/ \E k \in DOMAIN task : While(k)
    \/ \E k \in DOMAIN task : Emit(k)
    \/ Return

Spec == Init /\ [][Next]_vars

SpecMatch == InitMatch /\ [][Next]_vars

\* The worker pool keeps running the tasks it holds and collect returns once
\* they are all finished; nothing obliges the caller to call again.
Fairness ==
    /\ \A k \in 1..MaxCands : WF_vars(TaskStep(k))
    /\ WF_vars(Return)

\* Whether a call completes does not depend on the threshold, which only the
\* filter reads: the fair runs are explored for one threshold.
InitLive ==
    InitWith(SeqsUpTo(SeqsUpTo(Items, MaxLen), MaxTx),
             SeqsUpTo(SeqsUpTo(Items, MaxLen), MaxCands),
             {1}, 1..MaxWorkers)

LiveSpec == InitLive /\ [][Next]_vars /\ Fairness

(***************************************************************************)
(* What the claims are stated with.                                        *)
(***************************************************************************)
\* needle is not empty and equals hay[i .. i+|needle|) for some offset i.
Occurs(hay, needle) ==
    /\ Len(needle) > 0
    /\ \E i \in 0..(Len(hay) - Len(needle)) :
          \A j \in 1..Len(needle) : hay[i + j] = needle[j]

\* Number of transactions of the call that contain cand.
SupportOf(cand) == Cardinality({j \in 1..Len(tx) : Occurs(tx[j], cand)})

\* The positions of the candidates that reach the threshold.
Frequent == {k \in 1..Len(cands) : SupportOf(cands[k]) >= min_support}

\* C1: every entry of the result carries, as its support, the number of
\* transactions in which its candidate occurs as a contiguous run, a
\* transaction counting once however many offsets the candidate occurs at.
C1_SupportIsMatchCount ==
    pc = "done" =>
        \A e \in 1..Len(out) : out[e][2] = SupportOf(out[e][1])

C1_Witness ==
    /\ pc = "done"
    /\ tx = << <<1, 1>>, <<2, 1>> >>
    /\ \E e \in 1..Len(out) : out[e] = << <<1>>, 2 >>

\* C2: a candidate is in the result exactly when its support is at least
\* min_support; every entry has support >= min_support, the result has one
\* entry per candidate that reaches the threshold, and with min_support = 0
\* every candidate is returned with its true support.
C2_ThresholdExactInclusive ==
    pc = "done" =>
        /\ \A k \in 1..Len(cands) :
              (\E e \in 1..Len(out) : out[e][1] = cands[k]) <=> k \in Frequent
        /\ \A e \in 1..Len(out) : out[e][2] >= min_support
        /\ Len(out) = Cardinality(Frequent)
        /\ min_support = 0 =>
              out = [k \in 1..Len(cands) |-> <<cands[k], SupportOf(cands[k])>>]

C2_Witness ==
    /\ pc = "done"
    /\ min_support = 2
    /\ Len(cands) = 2
    /\ Len(out) = 1
    /\ out[1][2] = min_support
    /\ SupportOf(cands[1]) = 1

\* C3: the candidates of the result are the retained candidates in their
\* input order, whatever the order in which the tasks completed and whatever
\* the size of the pool.
C3_InputOrderPreserved ==
    pc = "done" =>
        \E f \in [1..Len(out) -> 1..Len(cands)] :
            /\ \A e \in 1..Len(out) : out[e][1] = cands[f[e]]
            /\ \A d, e \in 1..Len(out) : d < e => f[d] < f[e]
            /\ \A e \in 1..Len(out) : f[e] \in Frequent

C3_Witness ==
    /\ pc = "done"
    /\ pool = 2
    /\ finished = <<2, 1>>
    /\ Len(out) = 2
    /\ out[1][1] # out[2][1]

\* C4: a pair the prefilter skips is a pair the matcher rejects, and a call
\* with the prefilter on returns what the call with the prefilter off returns.
C4_PrefilterTransparent ==
    /\ \A k \in DOMAIN task :
          task[k].last = "skip" => ~is_subseq_contiguous(tx[task[k].idx], cands[k])
    /\ (pc = "done" /\ calls >= 2 /\ prefilter # prevPrefilter) => out = prevOut

C4_Witness ==
    /\ pc = "done"
    /\ calls = 2
    /\ prefilter
    /\ ~prevPrefilter
    /\ out # <<>>
    /\ \E k \in DOMAIN task : task[k].last = "skip"
    /\ \E k \in DOMAIN task : cands[k] = <<>>

\* C5: the matcher returns true exactly when the needle is not empty and
\* equals some window of the haystack element by element.
C5_MatcherIsContiguousOccurrence ==
    \A k \in DOMAIN task :
        task[k].last \in {"true", "false"} =>
            ((task[k].last = "true") <=> Occurs(tx[task[k].idx], cands[k]))

C5_Witness ==
    /\ tx = << <<1, 1, 1, 2, 1>> >>
    /\ cands = << <<1, 2, 1>> >>
    /\ ~prefilter
    /\ \E k \in DOMAIN task : task[k].last = "true"

\* C6: a call returns what the call before it returned for the same
\* arguments, whatever the pool size, the schedule and the value of
\* GSPPY_PREFILTER at either call.
C6_SameInputsSameOutput ==
    (pc = "done" /\ calls >= 2) => out = prevOut

C6_Witness ==
    /\ pc = "done"
    /\ calls = 2
    /\ prefilter # prevPrefilter
    /\ finished = <<2, 1>>
    /\ Len(out) = 2
    /\ out[1] # out[2]

\* C7: no candidates, no result; no transactions, every candidate has
\* support 0 and is returned only when min_support = 0.
C7_EmptyInputs ==
    pc = "done" =>
        /\ cands = <<>> => out = <<>>
        /\ tx = <<>> =>
              out = IF min_support = 0
                    THEN [k \in 1..Len(cands) |-> <<cands[k], 0>>]
                    ELSE <<>>

C7_Witness ==
    /\ pc = "done"
    /\ tx = <<>>
    /\ min_support = 0
    /\ Len(out) = 2

\* C8 as stated: whether a call applies the prefilter is decided by its
\* arguments alone, so two calls with the same arguments agree on it.
C8_PrefilterFromArgumentsOnly ==
    calls >= 2 => prefilter = prevPrefilter

\* C8 as amended: the call has no prefilter argument; it reads
\* GSPPY_PREFILTER once, when it starts, and applies the prefilter exactly
\* when the variable is "1" or "true" in any letter case; the switch and the
\* item sets then stay as they are until the next call.
C8_PrefilterFromEnvironmentAtCall ==
    [][/\ \A v \in EnvValues :
            Call(v) =>
               /\ prefilter' = (v \in {"1", "true", "TRUE"})
               /\ tx_sets'.some = prefilter'
       /\ calls' = calls => (prefilter' = prefilter /\ tx_sets' = tx_sets)]_vars

C8_Witness ==
    /\ calls = 2
    /\ prefilter
    /\ ~prevPrefilter
    /\ tx_sets.some
    /\ \E k \in DOMAIN task : task[k].last = "skip"

\* C9: a task's counter never exceeds the number of transactions it has
\* scanned; a step changes the counter of at most one task, by 0 or by 1, and
\* by 1 only when it has scanned one more transaction and the matcher
\* accepted it; the arguments do not change.
C9_CounterSteps ==
    /\ [](\A k \in DOMAIN task :
            task[k].freq <= task[k].idx /\ task[k].idx <= Len(tx))
    /\ [][/\ tx' = tx
          /\ cands' = cands
          /\ calls' = calls =>
                /\ Cardinality({k \in DOMAIN task : task'[k] # task[k]}) <= 1
                /\ \A k \in DOMAIN task :
                      /\ task'[k].freq - task[k].freq \in {0, 1}
                      /\ task'[k].freq = task[k].freq + 1 =>
                            /\ task'[k].idx = task[k].idx + 1
                            /\ task'[k].last = "true"
                            /\ Occurs(tx[task'[k].idx], cands[k])]_vars

C9_Witness ==
    \E k \in DOMAIN task :
        /\ tx = << <<1, 1>>, <<2>> >>
        /\ cands[k] = <<1>>
        /\ task[k].idx = 2
        /\ task[k].freq = 1

\* C10: under fair scheduling every call completes; a finished task has
\* scanned every transaction, one at a time and in input order, each either
\* skipped by the prefilter or given to the matcher; a started task can
\* always take its next step; the offset of the matcher's loop grows by one
\* per iteration and stays within the haystack; nothing is returned before
\* every task has finished.
C10_CallCompletes ==
    /\ (pc = "running") ~> (pc = "done")
    /\ [](/\ \A k \in DOMAIN task :
               /\ task[k].pc = "finished" => task[k].idx = Len(tx)
               /\ task[k].pc \in {"for", "while"} => ENABLED TaskStep(k)
               /\ task[k].pc = "while" =>
                     task[k].i + Len(cands[k]) <= Len(tx[task[k].idx + 1]) + 1
               /\ (task[k].idx > 0) <=> (task[k].last \in {"skip", "true", "false"})
          /\ pc = "running" => out = <<>>
          /\ pc = "done" => \A k \in DOMAIN task : task[k].pc = "finished")
    /\ [][calls' = calls =>
             \A k \in DOMAIN task :
                /\ task'[k].idx \in {task[k].idx, task[k].idx + 1}
                /\ (task[k].pc = "while" /\ task'[k].pc = "while"
                        /\ task'[k] # task[k]) =>
                      task'[k].i = task[k].i + 1]_vars

C10_Witness ==
    /\ pc = "done"
    /\ pool = 1
    /\ Len(cands) = 2
    /\ Len(tx) = 2
    /\ \E k \in DOMAIN task : task[k].last = "skip"

====
